---- MODULE Spec2Model ----
(***************************************************************************)
(* Model of fusionbrain-api-ts: the Task response entity                   *)
(* (src/src/response_entities/Task.ts), its boundary validation            *)
(* Task.create and its derived predicates isFinished / isCensored /        *)
(* isSuccess (specification Spec), and the FusionBrain client with its     *)
(* five operations, the FusionBrainError classification and the ModelInfo  *)
(* and StyleInfo validators (specification ClientSpec).  PollSpec adds the  *)
(* remote service, LoopSpec the caller's polling loop of the README under  *)
(* fairness, ConcSpec several calls in flight on one client.               *)
(*                                                                         *)
(* JavaScript values are tagged records [type, val]; the tag is the kind   *)
(* of value a JSON.parse result can hold.  A property that is not in an    *)
(* object reads as Undefined, as in JavaScript.                            *)
(***************************************************************************)
EXTENDS Integers, Sequences, FiniteSets, TLC

\* ------------------------------------------------------------------ bounds
\* longest `images` array that a response carries
MaxImages == 2

\* longest models or styles listing that a response carries
MaxListing == 2

\* ------------------------------------------------- JavaScript value universe
Str(s) == [type |-> "string", val |-> s]
Num(n) == [type |-> "number", val |-> n]
Bool(b) == [type |-> "boolean", val |-> b]
Arr(a) == [type |-> "array", val |-> a]
Obj(r) == [type |-> "object", val |-> r]
Null == [type |-> "null", val |-> "null"]
Undefined == [type |-> "undefined", val |-> "undefined"]

\* typeof(x)
typeof(v) ==
    CASE v.type = "string" -> "string"
      [] v.type = "number" -> "number"
      [] v.type = "boolean" -> "boolean"
      [] v.type = "undefined" -> "undefined"
      [] OTHER -> "object"

\* Array.isArray(x)
isArray(v) == v.type = "array"

\* ("key" in jsonObject): a parsed JSON object never holds an undefined value
in(key, obj) == obj[key] # Undefined

\* x == true, for the values the censored field can hold (undefined, boolean)
looseEqTrue(v) == v = Bool(TRUE)

\* x != undefined (loose: null counts as undefined)
notUndefined(v) == v.type \notin {"undefined", "null"}

\* ------------------------------------------------------- Task static fields
INITIAL == "INITIAL"
PROCESSING == "PROCESSING"
DONE == "DONE"
FAIL == "FAIL"

\* -------------------------------------------------------- response payloads
\* elements an images array of a response can hold
ImageElems == {Str("img"), Num(1)}

RECURSIVE SeqsUpTo(_, _)
SeqsUpTo(S, n) ==
    IF n = 0 THEN {<<>>}
    ELSE LET shorter == SeqsUpTo(S, n - 1)
         IN  shorter \cup {Append(q, e) : q \in {p \in shorter : Len(p) = n - 1}, e \in S}

UuidInputs == {Undefined, Num(7), Str(""), Str("u1")}
StatusInputs == {Undefined, Num(0), Str(""), Str(INITIAL), Str(PROCESSING), Str(DONE),
                 Str(FAIL), Str("CANCELLED")}
ImagesInputs == {Undefined, Str("img")} \cup {Arr(a) : a \in SeqsUpTo(ImageElems, MaxImages)}
ErrorDescriptionInputs == {Undefined, Str("boom"), Num(5)}
CensoredInputs == {Undefined, Bool(TRUE), Bool(FALSE), Str("true"), Null}
GenerationTimeInputs == {Undefined, Num(12), Str("12")}

\* the objects handed to Task.create (jsonObject: any, restricted to objects)
JsonObjects ==
    [uuid : UuidInputs, status : StatusInputs, images : ImagesInputs,
     errorDescription : ErrorDescriptionInputs, censored : CensoredInputs,
     generationTime : GenerationTimeInputs]

\* ------------------------------------------------------------- Task.create
foundOrMissing(ok) == IF ok THEN "found" ELSE "missing"

\* mutant: the typeof test on uuid forgotten
uuidOkPresenceOnly(jsonObject) == in("uuid", jsonObject)

uuidOk(jsonObject) == in("uuid", jsonObject) /\ typeof(jsonObject.uuid) = "string"

\* mutant: the typeof test on status forgotten
statusOkPresenceOnly(jsonObject) == in("status", jsonObject)

statusOk(jsonObject) == in("status", jsonObject) /\ typeof(jsonObject.status) = "string"

\* the `images` value stored by the optional part of create
dataImages(jsonObject) ==
    IF in("images", jsonObject)
       /\ isArray(jsonObject.images)
       /\ Len(jsonObject.images.val) > 0
       /\ typeof(jsonObject.images.val[1]) = "string"
    THEN jsonObject.images
    ELSE Undefined

dataErrorDescription(jsonObject) ==
    IF in("errorDescription", jsonObject) /\ typeof(jsonObject.errorDescription) = "string"
    THEN jsonObject.errorDescription
    ELSE Undefined

dataCensored(jsonObject) ==
    IF in("censored", jsonObject) /\ typeof(jsonObject.censored) = "boolean"
    THEN jsonObject.censored
    ELSE Undefined

dataGenerationTime(jsonObject) ==
    IF in("generationTime", jsonObject) /\ typeof(jsonObject.generationTime) = "number"
    THEN jsonObject.generationTime
    ELSE Undefined

\* new Task(uuid, status, images, errorDescription, censored, generationTime)
Task(uuid, status, images, errorDescription, censored, generationTime) ==
    [uuid |-> uuid, status |-> status, images |-> images,
     errorDescription |-> errorDescription, censored |-> censored,
     generationTime |-> generationTime]

\* the TypeError thrown by create: the two "found"/"missing" marks of its message
TaskTypeError(uOk, sOk) == [uuid |-> foundOrMissing(uOk), status |-> foundOrMissing(sOk)]

NoTask == Task(Undefined, Undefined, Undefined, Undefined, Undefined, Undefined)
NoError == [uuid |-> "none", status |-> "none"]

\* mutant: data.status is never assigned and keeps its initial ""
createStatusNotAssigned(jsonObject) ==
    IF ~(uuidOk(jsonObject) /\ statusOk(jsonObject))
    THEN [kind |-> "TypeError", task |-> NoTask,
          error |-> TaskTypeError(uuidOk(jsonObject), statusOk(jsonObject))]
    ELSE [kind |-> "Task",
          task |-> Task(jsonObject.uuid, Str(""), dataImages(jsonObject),
                        dataErrorDescription(jsonObject), dataCensored(jsonObject),
                        dataGenerationTime(jsonObject)),
          error |-> NoError]

\* Task.create(jsonObject): a returned Task or a thrown TypeError
create(jsonObject) ==
    IF ~(uuidOk(jsonObject) /\ statusOk(jsonObject))
    THEN [kind |-> "TypeError", task |-> NoTask,
          error |-> TaskTypeError(uuidOk(jsonObject), statusOk(jsonObject))]
    ELSE [kind |-> "Task",
          task |-> Task(jsonObject.uuid, jsonObject.status, dataImages(jsonObject),
                        dataErrorDescription(jsonObject), dataCensored(jsonObject),
                        dataGenerationTime(jsonObject)),
          error |-> NoError]

\* --------------------------------------------------------- Task predicates
\* mutant: FAIL forgotten
isFinishedOnlyDone(t) == t.status = Str(DONE)

\* mutant: DONE forgotten
isFinishedOnlyFail(t) == t.status = Str(FAIL)

isFinished(t) == t.status = Str(DONE) \/ t.status = Str(FAIL)

\* mutant: the flag alone decides, whatever the status
isCensoredAnyStatus(t) == looseEqTrue(t.censored)

isCensored(t) == isFinished(t) /\ looseEqTrue(t.censored)

\* mutant: the censorship test forgotten
isSuccessIgnoringCensored(t) ==
    LET done == t.status = Str(DONE)
        gotImages == notUndefined(t.images)
    IN  IF done /\ gotImages
        THEN Len(t.images.val) > 0
        ELSE FALSE

isSuccess(t) ==
    LET done == t.status = Str(DONE)
        notCensored == ~isCensored(t)
        gotImages == notUndefined(t.images)
    IN  IF done /\ notCensored /\ gotImages
        THEN Len(t.images.val) > 0
        ELSE FALSE

\* ================================================================ the client
\* ------------------------------------------------------------ JSON.stringify
\* the order in which the members of a response object were parsed
KeyOrder == <<"uuid", "status", "model_status", "images", "errorDescription", "censored",
              "generationTime", "id", "name", "version", "number", "type", "title",
              "titleEn", "image", "message">>

RECURSIVE stringifyText(_), joinElements(_, _), joinMembers(_, _, _)

\* the elements of an array, comma separated (undefined prints as null)
joinElements(a, i) ==
    IF i > Len(a) THEN ""
    ELSE (IF i > 1 THEN "," ELSE "") \o stringifyText(a[i]) \o joinElements(a, i + 1)

\* the members of an object, comma separated (undefined members are left out)
joinMembers(r, i, first) ==
    IF i > Len(KeyOrder) THEN ""
    ELSE IF KeyOrder[i] \in DOMAIN r /\ r[KeyOrder[i]] # Undefined
         THEN (IF first THEN "" ELSE ",") \o "\"" \o KeyOrder[i] \o "\":"
              \o stringifyText(r[KeyOrder[i]]) \o joinMembers(r, i + 1, FALSE)
         ELSE joinMembers(r, i + 1, first)

stringifyText(v) ==
    CASE v.type = "string" -> "\"" \o v.val \o "\""
      [] v.type = "number" -> ToString(v.val)
      [] v.type = "boolean" -> (IF v.val THEN "true" ELSE "false")
      [] v.type = "array" -> "[" \o joinElements(v.val, 1) \o "]"
      [] v.type = "object" -> "{" \o joinMembers(v.val, 1, TRUE) \o "}"
      [] OTHER -> "null"

\* JSON.stringify(x): a string, or undefined when x is undefined
stringify(v) == IF v = Undefined THEN Undefined ELSE Str(stringifyText(v))

\* ("key" in x) throws a TypeError unless x is an object (arrays included)
inThrows(v) == v.type \notin {"object", "array"}

\* ("key" in x) for an x on which it does not throw
inValue(key, v) == v.type = "object" /\ key \in DOMAIN v.val /\ v.val[key] # Undefined

\* x.key
getValue(v, key) ==
    IF v.type = "object" /\ key \in DOMAIN v.val THEN v.val[key] ELSE Undefined

\* ------------------------------------------------------- FusionBrainError
EXPIRED == "EXPIRED"
UNAUTHORIZED == "UNAUTHORIZED"
LONG_PROMPT_OR_BAD_REQUEST == "LONG_PROMPT_OR_BAD_REQUEST"
MODEL_NOT_READY == "MODEL_NOT_READY"
UNSUPPORTED_MEDIA == "UNSUPPORTED_MEDIA"
UNEXPECTED == "UNEXPECTED"

\* new FusionBrainError(message, code, body); the message starts with methodName
FusionBrainError(methodName, code, body) ==
    [class |-> "FusionBrainError", methodName |-> methodName, code |-> code, body |-> body]

\* err.response?.status
responseStatus(err) == IF err.response = Undefined THEN Undefined ELSE Num(err.response.status)

\* err.response?.data
responseData(err) == IF err.response = Undefined THEN Undefined ELSE err.response.data

unexpected(methodName, err) ==
    FusionBrainError(methodName, UNEXPECTED, stringify(responseData(err)))

unauthorized(methodName) == FusionBrainError(methodName, UNAUTHORIZED, Undefined)

taskExpired(methodName) == FusionBrainError(methodName, EXPIRED, Undefined)

tooLongPromptsOrBadRequest(methodName) ==
    FusionBrainError(methodName, LONG_PROMPT_OR_BAD_REQUEST, Undefined)

unsupportedMedia(methodName) == FusionBrainError(methodName, UNSUPPORTED_MEDIA, Undefined)

modelNotReady(methodName, body) == FusionBrainError(methodName, MODEL_NOT_READY, body)

\* a TypeError; `thrownBy` is the place that raised it, `detail` its message marks
TypeError(thrownBy, detail) ==
    [class |-> "TypeError", methodName |-> thrownBy, code |-> "none", body |-> detail]

\* the TypeError of ("key" in x) on a value that is not an object
InOperatorTypeError == TypeError("in", Undefined)

\* ------------------------------------------------------------ HTTP exchanges
\* failure statuses a server answers with
FailureStatuses == {400, 401, 404, 415, 500}

\* bodies of failure responses
FailureBodies == {Obj([message |-> Str("denied")]), Str("")}

\* axios resolved: a 2xx response with its parsed body
Resolved(data) == [kind |-> "response", status |-> 200, data |-> data, response |-> Undefined]

\* axios rejected with an AxiosError; response is undefined when none arrived
Rejected(response) ==
    [kind |-> "AxiosError", status |-> 0, data |-> Undefined, response |-> response]

NoExchange == [kind |-> "none", status |-> 0, data |-> Undefined, response |-> Undefined]

Failures ==
    {Rejected([status |-> st, data |-> b]) : st \in FailureStatuses, b \in FailureBodies}
        \cup {Rejected(Undefined)}

\* what a call leaves to its caller
Returned(value) == [kind |-> "return", value |-> value, error |-> Undefined, validated |-> 0]
Thrown(err) == [kind |-> "throw", value |-> Undefined, error |-> err, validated |-> 0]
NoResult == [kind |-> "none", value |-> Undefined, error |-> Undefined, validated |-> 0]

\* ------------------------------------------------------- FusionBrain.isReady
ReadyStatusInputs == {Undefined, Str("ACTIVE"), Str("DISABLED_BY_QUEUE"), Num(1)}
ReadyModelStatusInputs == {Undefined, Str("ACTIVE"), Str("DISABLED_MANUALLY")}

\* bodies of 2xx availability responses
ReadyPayloads ==
    {Obj(r) : r \in [status : ReadyStatusInputs, model_status : ReadyModelStatusInputs]}
        \cup {Str(""), Null, Arr(<<>>)}

\* the try block of isReady on a resolved exchange
isReadyTry(verbose_false, data) ==
    IF inThrows(data)
    THEN Thrown(InOperatorTypeError)
    ELSE LET readyStatusOk == inValue("status", data) /\ getValue(data, "status") = Str("ACTIVE")
             modelStatusOk == inValue("model_status", data)
                              /\ getValue(data, "model_status") = Str("ACTIVE")
         IN  IF readyStatusOk \/ modelStatusOk
             THEN Returned(Bool(TRUE))
             ELSE IF verbose_false
                  THEN Thrown(modelNotReady("FusionBrain.checkModel", stringify(data)))
                  ELSE Returned(Bool(FALSE))

\* the catch block of isReady: only an AxiosError is reclassified
isReadyCatch(err) ==
    IF responseStatus(err) = Num(401)
    THEN Thrown(unauthorized("FusionBrain.checkModel"))
    ELSE Thrown(unexpected("FusionBrain.checkModel", err))

\* isReady after its request has been answered
isReady(verbose_false, exchange) ==
    IF exchange.kind = "response"
    THEN isReadyTry(verbose_false, exchange.data)
    ELSE isReadyCatch(exchange)

\* ------------------------------------------- Task.create on a response body
\* the Task fields of a response body (a field that is not there reads undefined)
asJsonObject(data) ==
    [uuid |-> getValue(data, "uuid"), status |-> getValue(data, "status"),
     images |-> getValue(data, "images"),
     errorDescription |-> getValue(data, "errorDescription"),
     censored |-> getValue(data, "censored"),
     generationTime |-> getValue(data, "generationTime")]

\* Task.create(response.data): ("uuid" in x) throws on a body that is no object
createFromBody(data) ==
    IF inThrows(data)
    THEN [kind |-> "TypeError", task |-> NoTask, error |-> NoError]
    ELSE create(asJsonObject(data))

\* the TypeError that Task.create(response.data) threw
createError(data) ==
    IF inThrows(data)
    THEN InOperatorTypeError
    ELSE TypeError("Task.create", createFromBody(data).error)

\* bodies of 2xx responses of the run and status endpoints
TaskPayloads ==
    {Obj(r) : r \in [uuid : {Undefined, Str("u1"), Num(7)},
                     status : {Undefined, Str(INITIAL), Str(PROCESSING), Str(DONE), Str(FAIL)},
                     images : {Undefined, Arr(<<Str("img")>>)},
                     censored : {Undefined, Bool(FALSE)}]}
        \cup {Obj([model_status |-> Str("DISABLED_BY_QUEUE")]), Str(""), Null, Arr(<<>>)}

\* ------------------------------------------------------ FusionBrain.generate
Prompts == {"Dancing cat"}

\* the options argument: omitted, or an object with any of its five fields
OptionsInputs ==
    {Undefined} \cup
    {Obj(r) : r \in [style : {Undefined, Str("UHD")}, negative : {Undefined, Str("blur")},
                     width : {Undefined, Num(1024)}, height : {Undefined, Num(512)},
                     amount : {Undefined, Num(2)}]}

\* a ?? b
nullish(a, b) == IF a.type \in {"undefined", "null"} THEN b ELSE a

\* generateParams with the image count fixed
generateParamsOneImage(prompt, options) ==
    [type |-> Str("GENERATE"),
     style |-> nullish(getValue(options, "style"), Str("DEFAULT")),
     numImages |-> Num(1),
     width |-> nullish(getValue(options, "width"), Num(768)),
     height |-> nullish(getValue(options, "height"), Num(768)),
     negativePromptUnclip |-> nullish(getValue(options, "negative"), Str("")),
     generateParams |-> [query |-> Str(prompt)]]

\* generateParams with the defaults applied only when no options object is given
generateParamsAllOrNothing(prompt, options) ==
    [type |-> Str("GENERATE"),
     style |-> IF options = Undefined THEN Str("DEFAULT") ELSE getValue(options, "style"),
     numImages |-> IF options = Undefined THEN Num(1) ELSE getValue(options, "amount"),
     width |-> IF options = Undefined THEN Num(768) ELSE getValue(options, "width"),
     height |-> IF options = Undefined THEN Num(768) ELSE getValue(options, "height"),
     negativePromptUnclip |-> IF options = Undefined THEN Str("")
                              ELSE getValue(options, "negative"),
     generateParams |-> [query |-> Str(prompt)]]

\* the params object that generate builds (options?.x ?? default)
generateParams(prompt, options) ==
    [type |-> Str("GENERATE"),
     style |-> nullish(getValue(options, "style"), Str("DEFAULT")),
     numImages |-> nullish(getValue(options, "amount"), Num(1)),
     width |-> nullish(getValue(options, "width"), Num(768)),
     height |-> nullish(getValue(options, "height"), Num(768)),
     negativePromptUnclip |-> nullish(getValue(options, "negative"), Str("")),
     generateParams |-> [query |-> Str(prompt)]]

\* the multipart form: the params part and the model_id part
generateFormData(model_id, prompt, options) ==
    [params |-> generateParams(prompt, options), model_id |-> ToString(model_id)]

\* the Generation union
Accepted(t) == [accepted |-> TRUE, task |-> t, reason |-> Undefined]
Rejection(reason) == [accepted |-> FALSE, task |-> NoTask, reason |-> reason]

\* mutant: the inner catch forgotten, the TypeError of Task.create escapes
generateTryNoInnerCatch(data) ==
    IF createFromBody(data).kind = "Task"
    THEN Returned(Accepted(createFromBody(data).task))
    ELSE Thrown(createError(data))

\* the inner try/catch of generate on a resolved exchange
generateTry(data) ==
    IF createFromBody(data).kind = "Task"
    THEN Returned(Accepted(createFromBody(data).task))
    ELSE Returned(Rejection(stringify(data)))

\* the catch block of generate: switch(err.response?.status)
generateCatch(err) ==
    CASE responseStatus(err) = Num(400) ->
             Thrown(tooLongPromptsOrBadRequest("FusionBrain.generate"))
      [] responseStatus(err) = Num(401) -> Thrown(unauthorized("FusionBrain.generate"))
      [] responseStatus(err) = Num(415) -> Thrown(unsupportedMedia("FusionBrain.generate"))
      [] OTHER -> Thrown(unexpected("FusionBrain.generate", err))

\* generate after its request has been answered
generate(exchange) ==
    IF exchange.kind = "response"
    THEN generateTry(exchange.data)
    ELSE generateCatch(exchange)

\* ----------------------------------------------------- FusionBrain.checkTask
Uuids == {"u1", "u2"}

\* checkTaskTry with a failed validation classified as UNEXPECTED
checkTaskTryConverting(data) ==
    IF createFromBody(data).kind = "Task"
    THEN Returned(createFromBody(data).task)
    ELSE Thrown(FusionBrainError("FusionBrain.checkTask", UNEXPECTED, stringify(data)))

\* the try block of checkTask on a resolved exchange
checkTaskTry(data) ==
    IF createFromBody(data).kind = "Task"
    THEN Returned(createFromBody(data).task)
    ELSE Thrown(createError(data))

\* mutant: case 404 forgotten
checkTaskCatchNo404(err) ==
    CASE responseStatus(err) = Num(401) -> Thrown(unauthorized("FusionBrain.checkTask"))
      [] OTHER -> Thrown(unexpected("FusionBrain.checkTask", err))

\* the catch block of checkTask: switch(err.response?.status)
checkTaskCatch(err) ==
    CASE responseStatus(err) = Num(401) -> Thrown(unauthorized("FusionBrain.checkTask"))
      [] responseStatus(err) = Num(404) -> Thrown(taskExpired("FusionBrain.checkTask"))
      [] OTHER -> Thrown(unexpected("FusionBrain.checkTask", err))

\* checkTask after its request has been answered
checkTask(exchange) ==
    IF exchange.kind = "response"
    THEN checkTaskTry(exchange.data)
    ELSE checkTaskCatch(exchange)

\* ---------------------------------------------------------- ModelInfo.create
\* new ModelInfo(id, name, version, type)
ModelInfo(id, name, version, type) ==
    [id |-> id, name |-> name, version |-> version, type |-> type]

\* ("key" in jsonObject) && typeof(jsonObject.key) === kind
fieldOk(jsonObject, key, kind) ==
    inValue(key, jsonObject) /\ typeof(getValue(jsonObject, key)) = kind

\* ModelInfo.create(jsonObject): a returned ModelInfo or a thrown TypeError
createModelInfo(jsonObject) ==
    IF inThrows(jsonObject)
    THEN [kind |-> "TypeError", value |-> Undefined, error |-> InOperatorTypeError]
    ELSE LET idOk == fieldOk(jsonObject, "id", "number")
             nameOk == fieldOk(jsonObject, "name", "string")
             versionOk == fieldOk(jsonObject, "version", "number")
             typeOk == fieldOk(jsonObject, "type", "string")
         IN  IF idOk /\ nameOk /\ versionOk /\ typeOk
             THEN [kind |-> "ModelInfo",
                   value |-> ModelInfo(getValue(jsonObject, "id"), getValue(jsonObject, "name"),
                                       getValue(jsonObject, "number"),
                                       getValue(jsonObject, "type")),
                   error |-> Undefined]
             ELSE [kind |-> "TypeError", value |-> Undefined,
                   error |-> TypeError("ModelInfo.create",
                                 [id |-> foundOrMissing(idOk), name |-> foundOrMissing(nameOk),
                                  version |-> foundOrMissing(versionOk),
                                  type |-> foundOrMissing(typeOk)])]

\* ---------------------------------------------------------- StyleInfo.create
\* new StyleInfo(name, title, titleEn, image)
StyleInfo(name, title, titleEn, image) ==
    [name |-> name, title |-> title, titleEn |-> titleEn, image |-> image]

\* StyleInfo.create(jsonObject): a returned StyleInfo or a thrown TypeError
createStyleInfo(jsonObject) ==
    IF inThrows(jsonObject)
    THEN [kind |-> "TypeError", value |-> Undefined, error |-> InOperatorTypeError]
    ELSE LET nameOk == fieldOk(jsonObject, "name", "string")
             titleOk == fieldOk(jsonObject, "title", "string")
             titleEnOk == fieldOk(jsonObject, "titleEn", "string")
             imageOk == fieldOk(jsonObject, "image", "string")
         IN  IF nameOk /\ titleOk /\ titleEnOk /\ imageOk
             THEN [kind |-> "StyleInfo",
                   value |-> StyleInfo(getValue(jsonObject, "name"),
                                       getValue(jsonObject, "title"),
                                       getValue(jsonObject, "titleEn"),
                                       getValue(jsonObject, "image")),
                   error |-> Undefined]
             ELSE [kind |-> "TypeError", value |-> Undefined,
                   error |-> TypeError("StyleInfo.create",
                                 [name |-> foundOrMissing(nameOk),
                                  title |-> foundOrMissing(titleOk),
                                  titleEn |-> foundOrMissing(titleEnOk),
                                  image |-> foundOrMissing(imageOk)])]

\* --------------------------------------------- listings: getStyles, getModels
\* elements of a models listing
ModelElements ==
    {Obj(r) : r \in [id : {Num(4), Num(5), Str("4")}, name : {Undefined, Str("Kandinsky")},
                     version : {Undefined, Num(3)}, number : {Undefined, Num(9)},
                     type : {Str("TEXT2IMAGE")}]}
        \cup {Str("Kandinsky")}

\* elements of a styles listing
StyleElements ==
    {Obj(r) : r \in [name : {Str("UHD"), Str("ANIME"), Num(1)}, title : {Undefined, Str("t")},
                     titleEn : {Str("Detailed")}, image : {Undefined, Str("http://cdn/i.png")}]}
        \cup {Null}

\* bodies of 2xx listing responses that are not arrays
NonArrayPayloads ==
    {Obj([message |-> Str("denied")]), Str(""), Null,
     Obj([id |-> Num(4), name |-> Str("Kandinsky"), version |-> Num(3),
          type |-> Str("TEXT2IMAGE")])}

ModelsPayloads == {Arr(a) : a \in SeqsUpTo(ModelElements, MaxListing)} \cup NonArrayPayloads

StylesPayloads == {Arr(a) : a \in SeqsUpTo(StyleElements, MaxListing)} \cup NonArrayPayloads

\* the result of a call that ran `n` per-element create calls
withValidated(res, n) == [res EXCEPT !.validated = n]

\* mutant: elements that fail validation are left out of the listing
mapCreateSkipFailing(created) ==
    withValidated(Returned(SelectSeq(created, LAMBDA c : c.kind # "TypeError")),
                  Len(created))

\* response.data.map(obj => X.create(obj)): create runs element by element and
\* the first throw ends the map; `created` is the sequence of create outcomes
mapCreate(created) ==
    LET failing == {i \in 1..Len(created) : created[i].kind = "TypeError"}
        first == CHOOSE i \in failing : \A j \in failing : i <= j
    IN  IF failing = {}
        THEN withValidated(Returned([i \in 1..Len(created) |-> created[i].value]),
                           Len(created))
        ELSE withValidated(Thrown(created[first].error), first)

\* the try block of getStyles on a resolved exchange
getStylesTry(data) ==
    IF isArray(data)
    THEN mapCreate([i \in 1..Len(data.val) |-> createStyleInfo(data.val[i])])
    ELSE Thrown(TypeError("FusionBrain.getStyles", stringify(data)))

\* mutant: 401 handled as on the authenticated endpoints
getStylesCatchWith401(err) ==
    IF responseStatus(err) = Num(401)
    THEN Thrown(unauthorized("FusionBrain.checkModel"))
    ELSE Thrown(unexpected("FusionBrain.checkModel", err))

\* the catch block of getStyles: every AxiosError is unexpected
getStylesCatch(err) == Thrown(unexpected("FusionBrain.checkModel", err))

\* getStyles after its request has been answered
getStyles(exchange) ==
    IF exchange.kind = "response"
    THEN getStylesTry(exchange.data)
    ELSE getStylesCatch(exchange)

\* mutant: Array.isArray not tested, a lone body is validated as an element
getModelsTryNoArrayCheck(data) ==
    IF isArray(data)
    THEN mapCreate([i \in 1..Len(data.val) |-> createModelInfo(data.val[i])])
    ELSE mapCreate(<<createModelInfo(data)>>)

\* the try block of getModels on a resolved exchange
getModelsTry(data) ==
    IF isArray(data)
    THEN mapCreate([i \in 1..Len(data.val) |-> createModelInfo(data.val[i])])
    ELSE Thrown(TypeError("FusinBrain.getModels", stringify(data)))

\* the catch block of getModels
getModelsCatch(err) ==
    IF responseStatus(err) = Num(401)
    THEN Thrown(unauthorized("FusionBrain.checkModel"))
    ELSE Thrown(unexpected("FusionBrain.checkModel", err))

\* getModels after its request has been answered
getModels(exchange) ==
    IF exchange.kind = "response"
    THEN getModelsTry(exchange.data)
    ELSE getModelsCatch(exchange)

\* ---------------------------------------------------------------- state
VARIABLES
    jsonObject,     \* the parsed response body handed to Task.create
    outcome,        \* what that call did: "none", "Task" or "TypeError"
    task,           \* the Task it returned (NoTask if none)
    error,          \* the TypeError it threw (NoError if none)
    retFinished,    \* <<b>> once task.isFinished() returned b, else <<>>
    retCensored,    \* <<b>> once task.isCensored() returned b, else <<>>
    retSuccess,     \* <<b>> once task.isSuccess() returned b, else <<>>
    config,         \* the client's configuration, set by the constructor
    pc,             \* "idle", "awaiting" (request sent, call suspended) or "done"
    call,           \* the operation called and its arguments
    request,        \* the HTTP request the call sent
    exchange,       \* how the transport completed that request
    result,         \* what the call returned or threw
    sent,           \* how many HTTP requests the call has sent
    remote,         \* the remote service: the state of the job of each uuid
    observed,       \* per uuid, how many finished Tasks checkTask has returned
    kept,           \* the caller's variable task: the Task it took last (NoTask if none)
    loop,           \* where the caller's polling loop is
    flight          \* per slot, a call among several made without awaiting each other

taskVars == <<jsonObject, outcome, task, error, retFinished, retCensored, retSuccess>>

clientVars == <<config, pc, call, request, exchange, result, sent>>

pollVars == <<remote, observed, kept, loop>>

vars == <<jsonObject, outcome, task, error, retFinished, retCensored, retSuccess,
          config, pc, call, request, exchange, result, sent, remote, observed,
          kept, loop, flight>>

\* new FusionBrain(apiKey, secretKey): the default endpoint
DefaultEndpoint == "https://api-key.fusionbrain.ai"

\* new FusionBrain(apiKey, secretKey, apiEndpoint)
FusionBrain(apiKey, secretKey, apiEndpoint) ==
    [api |-> apiKey, secret |-> secretKey, endpoint |-> apiEndpoint]

NoCall == [op |-> "none"]
NoRequest == [method |-> "none"]

\* how many calls the caller makes without awaiting one before the next
MaxCalls == 2

Slots == 1..MaxCalls

\* a slot whose call has not been made
NotCalled ==
    [pc |-> "idle", call |-> NoCall, request |-> NoRequest, exchange |-> NoExchange,
     result |-> NoResult, overlapped |-> FALSE]

\* the client constructed and no operation called yet
ClientIdle ==
    /\ config = FusionBrain("key", "secret", DefaultEndpoint)
    /\ pc = "idle"
    /\ call = NoCall
    /\ request = NoRequest
    /\ exchange = NoExchange
    /\ result = NoResult
    /\ sent = 0
    /\ remote = [u \in Uuids |-> "unused"]
    /\ observed = [u \in Uuids |-> 0]
    /\ kept = NoTask
    /\ loop = "start"
    /\ flight = [s \in Slots |-> NotCalled]

Init ==
    /\ jsonObject \in JsonObjects
    /\ outcome = "none"
    /\ task = NoTask
    /\ error = NoError
    /\ retFinished = <<>>
    /\ retCensored = <<>>
    /\ retSuccess = <<>>
    /\ ClientIdle

\* the parsed response body is passed to Task.create
TaskCreate ==
    /\ outcome = "none"
    /\ LET r == create(jsonObject)
       IN  /\ outcome' = r.kind
           /\ task' = r.task
           /\ error' = r.error
    /\ UNCHANGED <<jsonObject, retFinished, retCensored, retSuccess>>
    /\ UNCHANGED clientVars
    /\ UNCHANGED pollVars
    /\ UNCHANGED flight

\* the caller asks task.isFinished()
CallIsFinished ==
    /\ outcome = "Task"
    /\ retFinished' = <<isFinished(task)>>
    /\ UNCHANGED <<jsonObject, outcome, task, error, retCensored, retSuccess>>
    /\ UNCHANGED clientVars
    /\ UNCHANGED pollVars
    /\ UNCHANGED flight

\* the caller asks task.isCensored()
CallIsCensored ==
    /\ outcome = "Task"
    /\ retCensored' = <<isCensored(task)>>
    /\ UNCHANGED <<jsonObject, outcome, task, error, retFinished, retSuccess>>
    /\ UNCHANGED clientVars
    /\ UNCHANGED pollVars
    /\ UNCHANGED flight

\* the caller asks task.isSuccess()
CallIsSuccess ==
    /\ outcome = "Task"
    /\ retSuccess' = <<isSuccess(task)>>
    /\ UNCHANGED <<jsonObject, outcome, task, error, retFinished, retCensored>>
    /\ UNCHANGED clientVars
    /\ UNCHANGED pollVars
    /\ UNCHANGED flight

Next ==
    \/ TaskCreate
    \/ CallIsFinished
    \/ CallIsCensored
    \/ CallIsSuccess

Spec == Init /\ [][Next]_vars

\* ------------------------------------------------------------ type invariant
TypeOK ==
    /\ outcome \in {"none", "Task", "TypeError"}
    /\ jsonObject \in JsonObjects
    /\ retFinished \in {<<>>, <<TRUE>>, <<FALSE>>}
    /\ retCensored \in {<<>>, <<TRUE>>, <<FALSE>>}
    /\ retSuccess \in {<<>>, <<TRUE>>, <<FALSE>>}

\* ------------------------------------------------------- client specification
ModelIds == {4}

\* headers of an authenticated request
AuthHeaders(cfg) == [XKey |-> "Key " \o cfg.api, XSecret |-> "Secret " \o cfg.secret]

NoHeaders == [XKey |-> "", XSecret |-> ""]

HttpRequest(method, url, headers, data) ==
    [method |-> method, url |-> url, headers |-> headers, data |-> data]

\* every Task field not supplied
EmptyJsonObject ==
    [uuid |-> Undefined, status |-> Undefined, images |-> Undefined,
     errorDescription |-> Undefined, censored |-> Undefined, generationTime |-> Undefined]

ClientInit ==
    /\ jsonObject = EmptyJsonObject
    /\ outcome = "none"
    /\ task = NoTask
    /\ error = NoError
    /\ retFinished = <<>>
    /\ retCensored = <<>>
    /\ retSuccess = <<>>
    /\ ClientIdle

\* client.isReady(model_id, verbose_false) up to its await: the GET is sent
IsReadyCall ==
    /\ pc = "idle"
    /\ \E model_id \in ModelIds, verbose_false \in BOOLEAN :
        /\ call' = [op |-> "isReady", model_id |-> model_id, verbose_false |-> verbose_false]
        /\ request' = HttpRequest("GET",
               config.endpoint \o "/key/api/v1/text2image/availability?model_id="
                   \o ToString(model_id),
               AuthHeaders(config), Undefined)
    /\ sent' = sent + 1
    /\ pc' = "awaiting"
    /\ UNCHANGED <<config, exchange, result>>
    /\ UNCHANGED taskVars
    /\ UNCHANGED flight
    /\ UNCHANGED pollVars

\* the bodies a 2xx response to the pending request can carry
PayloadsFor(op) ==
    CASE op = "isReady" -> ReadyPayloads
      [] op = "generate" -> TaskPayloads
      [] op = "checkTask" -> TaskPayloads
      [] op = "getStyles" -> StylesPayloads
      [] op = "getModels" -> ModelsPayloads
      [] OTHER -> {}

\* the transport completes the pending request: a 2xx response or an AxiosError
Transport ==
    /\ pc = "awaiting"
    /\ exchange = NoExchange
    /\ exchange' \in {Resolved(d) : d \in PayloadsFor(call.op)} \cup Failures
    /\ UNCHANGED <<config, pc, call, request, result, sent>>
    /\ UNCHANGED taskVars
    /\ UNCHANGED flight
    /\ UNCHANGED pollVars

\* isReady resumes after its await and returns or throws
IsReadyResume ==
    /\ pc = "awaiting"
    /\ call.op = "isReady"
    /\ exchange # NoExchange
    /\ result' = isReady(call.verbose_false, exchange)
    /\ pc' = "done"
    /\ UNCHANGED <<config, call, request, exchange, sent>>
    /\ UNCHANGED taskVars
    /\ UNCHANGED flight
    /\ UNCHANGED pollVars

\* client.generate(model_id, prompt, options) up to its await: the POST is sent
GenerateCall ==
    /\ pc = "idle"
    /\ \E model_id \in ModelIds, prompt \in Prompts, options \in OptionsInputs :
        /\ call' = [op |-> "generate", model_id |-> model_id, prompt |-> prompt,
                    options |-> options]
        /\ request' = HttpRequest("POST", config.endpoint \o "/key/api/v1/text2image/run",
               AuthHeaders(config), generateFormData(model_id, prompt, options))
    /\ sent' = sent + 1
    /\ pc' = "awaiting"
    /\ UNCHANGED <<config, exchange, result>>
    /\ UNCHANGED taskVars
    /\ UNCHANGED flight
    /\ UNCHANGED pollVars

\* generate resumes after its await and returns or throws
GenerateResume ==
    /\ pc = "awaiting"
    /\ call.op = "generate"
    /\ exchange # NoExchange
    /\ result' = generate(exchange)
    /\ pc' = "done"
    /\ UNCHANGED <<config, call, request, exchange, sent>>
    /\ UNCHANGED taskVars
    /\ UNCHANGED flight
    /\ UNCHANGED pollVars

\* client.checkTask(uuid) up to its await: the GET is sent
CheckTaskCall ==
    /\ pc = "idle"
    /\ \E uuid \in Uuids :
        /\ call' = [op |-> "checkTask", uuid |-> uuid]
        /\ request' = HttpRequest("GET",
               config.endpoint \o "/key/api/v1/text2image/status/" \o uuid,
               AuthHeaders(config), Undefined)
    /\ sent' = sent + 1
    /\ pc' = "awaiting"
    /\ UNCHANGED <<config, exchange, result>>
    /\ UNCHANGED taskVars
    /\ UNCHANGED flight
    /\ UNCHANGED pollVars

\* CheckTaskResume sending the request a second time when the first fails
CheckTaskResumeRetrying ==
    /\ pc = "awaiting"
    /\ call.op = "checkTask"
    /\ exchange # NoExchange
    /\ IF exchange.kind = "AxiosError" /\ sent < 2
       THEN /\ sent' = sent + 1
            /\ exchange' = NoExchange
            /\ UNCHANGED <<pc, result>>
       ELSE /\ result' = checkTask(exchange)
            /\ pc' = "done"
            /\ UNCHANGED <<exchange, sent>>
    /\ UNCHANGED <<config, call, request>>
    /\ UNCHANGED taskVars
    /\ UNCHANGED flight
    /\ UNCHANGED pollVars

\* CheckTaskResume writing the new status into the Task the caller holds
CheckTaskResumeInPlace ==
    /\ pc = "awaiting"
    /\ call.op = "checkTask"
    /\ exchange # NoExchange
    /\ result' = checkTask(exchange)
    /\ pc' = "done"
    /\ kept' = IF /\ checkTask(exchange).kind = "return"
                  /\ kept # NoTask
                  /\ kept.uuid = checkTask(exchange).value.uuid
               THEN checkTask(exchange).value
               ELSE kept
    /\ UNCHANGED <<config, call, request, exchange, sent>>
    /\ UNCHANGED taskVars
    /\ UNCHANGED flight
    /\ UNCHANGED <<remote, observed, loop>>

\* CheckTaskResume handing the caller an unfinished Task where checkTask throws
CheckTaskResumeHidingErrors ==
    /\ pc = "awaiting"
    /\ call.op = "checkTask"
    /\ exchange # NoExchange
    /\ result' = IF checkTask(exchange).kind = "throw"
                 THEN Returned(Task(Str(call.uuid), Str(PROCESSING), Undefined, Undefined,
                                    Undefined, Undefined))
                 ELSE checkTask(exchange)
    /\ pc' = "done"
    /\ UNCHANGED <<config, call, request, exchange, sent>>
    /\ UNCHANGED taskVars
    /\ UNCHANGED flight
    /\ UNCHANGED pollVars

\* checkTask resumes after its await and returns or throws
CheckTaskResume ==
    /\ pc = "awaiting"
    /\ call.op = "checkTask"
    /\ exchange # NoExchange
    /\ result' = checkTask(exchange)
    /\ pc' = "done"
    /\ UNCHANGED <<config, call, request, exchange, sent>>
    /\ UNCHANGED taskVars
    /\ UNCHANGED flight
    /\ UNCHANGED pollVars

\* the styles listing is fetched from a fixed URL without credentials
StylesUrl == "http://cdn.fusionbrain.ai/static/styles/key"

\* client.getStyles() up to its await: the GET is sent
GetStylesCall ==
    /\ pc = "idle"
    /\ call' = [op |-> "getStyles"]
    /\ request' = HttpRequest("GET", StylesUrl, NoHeaders, Undefined)
    /\ sent' = sent + 1
    /\ pc' = "awaiting"
    /\ UNCHANGED <<config, exchange, result>>
    /\ UNCHANGED taskVars
    /\ UNCHANGED flight
    /\ UNCHANGED pollVars

\* getStyles resumes after its await and returns or throws
GetStylesResume ==
    /\ pc = "awaiting"
    /\ call.op = "getStyles"
    /\ exchange # NoExchange
    /\ result' = getStyles(exchange)
    /\ pc' = "done"
    /\ UNCHANGED <<config, call, request, exchange, sent>>
    /\ UNCHANGED taskVars
    /\ UNCHANGED flight
    /\ UNCHANGED pollVars

\* client.getModels() up to its await: the GET is sent
GetModelsCall ==
    /\ pc = "idle"
    /\ call' = [op |-> "getModels"]
    /\ request' = HttpRequest("GET", config.endpoint \o "/key/api/v1/models",
                              AuthHeaders(config), Undefined)
    /\ sent' = sent + 1
    /\ pc' = "awaiting"
    /\ UNCHANGED <<config, exchange, result>>
    /\ UNCHANGED taskVars
    /\ UNCHANGED flight
    /\ UNCHANGED pollVars

\* getModels resumes after its await and returns or throws
GetModelsResume ==
    /\ pc = "awaiting"
    /\ call.op = "getModels"
    /\ exchange # NoExchange
    /\ result' = getModels(exchange)
    /\ pc' = "done"
    /\ UNCHANGED <<config, call, request, exchange, sent>>
    /\ UNCHANGED taskVars
    /\ UNCHANGED flight
    /\ UNCHANGED pollVars

ClientNext ==
    \/ IsReadyCall
    \/ GenerateCall
    \/ CheckTaskCall
    \/ GetStylesCall
    \/ GetModelsCall
    \/ Transport
    \/ IsReadyResume
    \/ GenerateResume
    \/ CheckTaskResume
    \/ GetStylesResume
    \/ GetModelsResume

ClientSpec == ClientInit /\ [][ClientNext]_vars

ClientTypeOK ==
    /\ pc \in {"idle", "awaiting", "done"}
    /\ result.kind \in {"none", "return", "throw"}
    /\ exchange.kind \in {"none", "response", "AxiosError"}
    /\ (pc = "done") <=> (result # NoResult)
    /\ config = FusionBrain("key", "secret", DefaultEndpoint)

\* ------------------------------------------------ the remote service, polling
\* states of a remote job: its status while the service holds it, "unused"
\* before the service has issued the uuid, "removed" once the job is gone
JobStates == {"unused", INITIAL, PROCESSING, DONE, FAIL, "removed"}

\* the body the status endpoint answers with for a job it holds
statusBody(uuid, state) ==
    CASE state = DONE ->
             Obj([uuid |-> Str(uuid), status |-> Str(DONE), images |-> Arr(<<Str("img")>>),
                  censored |-> Bool(FALSE), generationTime |-> Num(12)])
      [] state = FAIL ->
             Obj([uuid |-> Str(uuid), status |-> Str(FAIL),
                  errorDescription |-> Str("boom"), censored |-> Bool(FALSE)])
      [] OTHER -> Obj([uuid |-> Str(uuid), status |-> Str(state), censored |-> Bool(FALSE)])

\* exchanges that fail without the service handling the request
PollFailures == {Rejected(Undefined), Rejected([status |-> 500, data |-> Str("")])}

\* the service handles the POST of generate: it queues a job under a fresh
\* uuid, or turns the request down with a body that is no Task
ServiceRun ==
    /\ pc = "awaiting"
    /\ call.op = "generate"
    /\ exchange = NoExchange
    /\ \/ \E u \in Uuids :
            /\ remote[u] = "unused"
            /\ remote' = [remote EXCEPT ![u] = INITIAL]
            /\ exchange' = Resolved(Obj([uuid |-> Str(u), status |-> Str(INITIAL)]))
       \/ /\ exchange' = Resolved(Obj([model_status |-> Str("DISABLED_BY_QUEUE")]))
          /\ UNCHANGED remote
    /\ UNCHANGED <<config, pc, call, request, result, sent, observed, kept, loop>>
    /\ UNCHANGED taskVars
    /\ UNCHANGED flight

\* the service handles the GET of checkTask: 404 for a job it does not hold,
\* else the job's status; a finished job is deleted by this first fetch, also
\* when the answer is then lost on its way to the client
ServiceStatus ==
    /\ pc = "awaiting"
    /\ call.op = "checkTask"
    /\ exchange = NoExchange
    /\ LET state == remote[call.uuid]
       IN  IF state \in {"unused", "removed"}
           THEN /\ exchange' = Rejected([status |-> 404, data |-> Str("")])
                /\ UNCHANGED remote
           ELSE /\ exchange' \in {Resolved(statusBody(call.uuid, state)), Rejected(Undefined)}
                /\ remote' = IF state \in {DONE, FAIL}
                             THEN [remote EXCEPT ![call.uuid] = "removed"]
                             ELSE remote
    /\ UNCHANGED <<config, pc, call, request, result, sent, observed, kept, loop>>
    /\ UNCHANGED taskVars
    /\ UNCHANGED flight

\* the request fails before the service handles it
ExchangeFails ==
    /\ pc = "awaiting"
    /\ exchange = NoExchange
    /\ exchange' \in PollFailures
    /\ UNCHANGED <<config, pc, call, request, result, sent>>
    /\ UNCHANGED pollVars
    /\ UNCHANGED taskVars
    /\ UNCHANGED flight

\* the service works on a job: INITIAL, then PROCESSING, then DONE or FAIL
ServiceProgress ==
    /\ \E u \in Uuids :
        \/ /\ remote[u] = INITIAL
           /\ remote' = [remote EXCEPT ![u] = PROCESSING]
        \/ /\ remote[u] = PROCESSING
           /\ \E end \in {DONE, FAIL} : remote' = [remote EXCEPT ![u] = end]
    /\ UNCHANGED <<observed, kept, loop>>
    /\ UNCHANGED clientVars
    /\ UNCHANGED taskVars
    /\ UNCHANGED flight

\* the service drops a job that was not fetched in time
ServiceExpire ==
    /\ \E u \in Uuids :
        /\ remote[u] \in {INITIAL, PROCESSING, DONE, FAIL}
        /\ remote' = [remote EXCEPT ![u] = "removed"]
    /\ UNCHANGED <<observed, kept, loop>>
    /\ UNCHANGED clientVars
    /\ UNCHANGED taskVars
    /\ UNCHANGED flight

\* the Task that the settled call handed to the caller: the one checkTask
\* returned, or the one of an accepted Generation
HandedTask ==
    IF result.kind # "return"
    THEN NoTask
    ELSE CASE call.op = "checkTask" -> result.value
           [] call.op = "generate" -> result.value.task
           [] OTHER -> NoTask

\* the caller takes the outcome of the settled call, assigns a Task it got to
\* its variable, notes a finished Task and is free to call again
Continue ==
    /\ pc = "done"
    /\ kept' = IF HandedTask # NoTask THEN HandedTask ELSE kept
    /\ observed' = IF /\ call.op = "checkTask"
                      /\ result.kind = "return"
                      /\ isFinished(result.value)
                   THEN [observed EXCEPT ![call.uuid] = @ + 1]
                   ELSE observed
    /\ pc' = "idle"
    /\ call' = NoCall
    /\ request' = NoRequest
    /\ exchange' = NoExchange
    /\ result' = NoResult
    /\ sent' = 0
    /\ UNCHANGED <<config, remote, loop>>
    /\ UNCHANGED taskVars
    /\ UNCHANGED flight

PollNext ==
    \/ GenerateCall
    \/ CheckTaskCall
    \/ ServiceRun
    \/ ServiceStatus
    \/ ExchangeFails
    \/ ServiceProgress
    \/ ServiceExpire
    \/ GenerateResume
    \/ CheckTaskResume
    \/ Continue

PollSpec == ClientInit /\ [][PollNext]_vars

PollTypeOK ==
    /\ remote \in [Uuids -> JobStates]
    /\ observed \in [Uuids -> 0..1]
    /\ pc \in {"idle", "awaiting", "done"}

\* ------------------------------------------------- the caller's polling loop
\* the loop starts: the caller submits the generation
LoopSubmit ==
    /\ loop = "start"
    /\ GenerateCall

\* the body of the loop: task = await fb.checkTask(task.uuid)
LoopPoll ==
    /\ loop = "polling"
    /\ CheckTaskCall
    /\ call'.uuid = kept.uuid.val

\* the caller's code after an await: a thrown error ends it, a rejected
\* generation ends it, a Task is assigned to task and the loop condition
\* !task.isFinished() decides between another round and the end
LoopTake ==
    /\ pc = "done"
    /\ loop \in {"start", "polling"}
    /\ kept' = IF HandedTask # NoTask THEN HandedTask ELSE kept
    /\ observed' = IF /\ call.op = "checkTask"
                      /\ result.kind = "return"
                      /\ isFinished(result.value)
                   THEN [observed EXCEPT ![call.uuid] = @ + 1]
                   ELSE observed
    /\ loop' = CASE result.kind = "throw" -> "failed"
                 [] HandedTask = NoTask -> "rejected"
                 [] isFinished(HandedTask) -> "ended"
                 [] OTHER -> "polling"
    /\ IF result.kind = "return" /\ HandedTask # NoTask /\ ~isFinished(HandedTask)
       THEN /\ pc' = "idle"
            /\ call' = NoCall
            /\ request' = NoRequest
            /\ exchange' = NoExchange
            /\ result' = NoResult
            /\ sent' = 0
       ELSE UNCHANGED <<pc, call, request, exchange, result, sent>>
    /\ UNCHANGED <<config, remote>>
    /\ UNCHANGED taskVars
    /\ UNCHANGED flight

LoopNext ==
    \/ LoopSubmit
    \/ LoopPoll
    \/ LoopTake
    \/ ServiceRun
    \/ ServiceStatus
    \/ ExchangeFails
    \/ ServiceProgress
    \/ ServiceExpire
    \/ GenerateResume
    \/ CheckTaskResume

\* the loop runs on: the event loop resumes every settled await and runs the
\* caller's next statement, every request is answered or fails, and the
\* service works on the job until it is finished
LoopSpec ==
    /\ ClientInit
    /\ [][LoopNext]_vars
    /\ WF_vars(LoopSubmit)
    /\ WF_vars(LoopPoll)
    /\ WF_vars(LoopTake)
    /\ WF_vars(GenerateResume)
    /\ WF_vars(CheckTaskResume)
    /\ WF_vars(ServiceRun \/ ServiceStatus \/ ExchangeFails)
    /\ WF_vars(ServiceProgress)

\* ----------------------------------------- calls made without awaiting each other
\* the calls the caller makes
ConcCalls ==
    {[op |-> "isReady", model_id |-> m, verbose_false |-> FALSE] : m \in ModelIds}
        \cup {[op |-> "generate", model_id |-> m, prompt |-> q, options |-> Undefined] :
                  m \in ModelIds, q \in Prompts}
        \cup {[op |-> "checkTask", uuid |-> u] : u \in Uuids}
        \cup {[op |-> "getStyles"], [op |-> "getModels"]}

\* the request each method builds from its arguments and this.config
requestFor(cfg, c) ==
    CASE c.op = "isReady" ->
             HttpRequest("GET",
                 cfg.endpoint \o "/key/api/v1/text2image/availability?model_id="
                     \o ToString(c.model_id),
                 AuthHeaders(cfg), Undefined)
      [] c.op = "generate" ->
             HttpRequest("POST", cfg.endpoint \o "/key/api/v1/text2image/run",
                 AuthHeaders(cfg), generateFormData(c.model_id, c.prompt, c.options))
      [] c.op = "checkTask" ->
             HttpRequest("GET", cfg.endpoint \o "/key/api/v1/text2image/status/" \o c.uuid,
                 AuthHeaders(cfg), Undefined)
      [] c.op = "getStyles" -> HttpRequest("GET", StylesUrl, NoHeaders, Undefined)
      [] c.op = "getModels" ->
             HttpRequest("GET", cfg.endpoint \o "/key/api/v1/models", AuthHeaders(cfg),
                         Undefined)

\* what the method called returns or throws once its own await has settled
settle(c, x) ==
    CASE c.op = "isReady" -> isReady(c.verbose_false, x)
      [] c.op = "generate" -> generate(x)
      [] c.op = "checkTask" -> checkTask(x)
      [] c.op = "getStyles" -> getStyles(x)
      [] c.op = "getModels" -> getModels(x)

\* a body that validates for the operation and one that does not
ConcPayloads(op) ==
    CASE op = "isReady" ->
             {Obj([status |-> Str("ACTIVE"), model_status |-> Undefined]),
              Obj([status |-> Str("DISABLED_BY_QUEUE"), model_status |-> Undefined])}
      [] op \in {"generate", "checkTask"} ->
             {Obj([uuid |-> Str("u1"), status |-> Str(DONE),
                   images |-> Arr(<<Str("img")>>), censored |-> Bool(FALSE)]),
              Obj([model_status |-> Str("DISABLED_BY_QUEUE")])}
      [] OTHER -> {Arr(<<>>), Obj([message |-> Str("denied")])}

\* the caller calls a method while other calls may be in flight
ConcCall(s) ==
    /\ flight[s].pc = "idle"
    /\ \E c \in ConcCalls :
        flight' = [flight EXCEPT ![s] =
                       [pc |-> "awaiting", call |-> c, request |-> requestFor(config, c),
                        exchange |-> NoExchange, result |-> NoResult, overlapped |-> FALSE]]
    /\ UNCHANGED taskVars
    /\ UNCHANGED clientVars
    /\ UNCHANGED pollVars

\* the transport completes the request of one call: a 2xx response, no
\* response, or a 404
ConcTransport(s) ==
    /\ flight[s].pc = "awaiting"
    /\ flight[s].exchange = NoExchange
    /\ \E x \in {Resolved(d) : d \in ConcPayloads(flight[s].call.op)}
                  \cup {Rejected(Undefined), Rejected([status |-> 404, data |-> Str("")])} :
        flight' = [flight EXCEPT ![s].exchange = x]
    /\ UNCHANGED taskVars
    /\ UNCHANGED clientVars
    /\ UNCHANGED pollVars

\* ConcResume with the response kept in a field of the client, where the
\* response of another call that arrived meanwhile has replaced it
ConcResumeSharedResponse(s) ==
    /\ flight[s].pc = "awaiting"
    /\ flight[s].exchange # NoExchange
    /\ LET arrived == {t \in Slots \ {s} : /\ flight[t].pc = "awaiting"
                                             /\ flight[t].exchange # NoExchange}
           x == IF arrived = {}
                THEN flight[s].exchange
                ELSE flight[CHOOSE t \in arrived : TRUE].exchange
       IN  flight' = [flight EXCEPT ![s].result = settle(flight[s].call, x),
                                    ![s].pc = "done",
                                    ![s].overlapped =
                                        (\E t \in Slots \ {s} : flight[t].pc = "awaiting")]
    /\ UNCHANGED taskVars
    /\ UNCHANGED clientVars
    /\ UNCHANGED pollVars

\* one call resumes after its await, with the response in its local const,
\* and returns or throws
ConcResume(s) ==
    /\ flight[s].pc = "awaiting"
    /\ flight[s].exchange # NoExchange
    /\ flight' = [flight EXCEPT ![s].result = settle(flight[s].call, flight[s].exchange),
                                ![s].pc = "done",
                                ![s].overlapped =
                                        (\E t \in Slots \ {s} : flight[t].pc = "awaiting")]
    /\ UNCHANGED taskVars
    /\ UNCHANGED clientVars
    /\ UNCHANGED pollVars

ConcNext ==
    \E s \in Slots :
        \/ ConcCall(s)
        \/ ConcTransport(s)
        \/ ConcResume(s)

ConcSpec == ClientInit /\ [][ConcNext]_vars

\* ================================================================== claims

C2_SuccessImpliesFinishedNotCensored ==
    retSuccess = <<TRUE>> => (retFinished # <<FALSE>> /\ retCensored # <<TRUE>>)

\* C2 witness: the three predicates were all asked of a successful task.
C2_Witness ==
    /\ retSuccess = <<TRUE>>
    /\ retFinished = <<TRUE>>
    /\ retCensored = <<FALSE>>

\* C3: isCensored() returns true if and only if the status is DONE or FAIL
\* and the censored flag is explicitly true; it is false for every
\* non-finished status whatever the flag.
C3_IsCensoredIff ==
    retCensored # <<>> =>
        retCensored[1] = (/\ task.status.val \in {"DONE", "FAIL"}
                          /\ task.censored.type = "boolean"
                          /\ task.censored.val = TRUE)

\* C3 witness: isCensored() returned false for a PROCESSING task whose
\* censored flag is true.
C3_Witness ==
    /\ retCensored = <<FALSE>>
    /\ task.status = Str(PROCESSING)
    /\ task.censored = Bool(TRUE)

\* C4: isFinished() returns true if and only if the status is "DONE" or
\* "FAIL"; it is false for INITIAL, PROCESSING and any other string.
C4_IsFinishedIff ==
    retFinished # <<>> => retFinished[1] = (task.status.val \in {"DONE", "FAIL"})

\* C4 witness: isFinished() returned true for a FAIL task.
C4_Witness ==
    /\ retFinished = <<TRUE>>
    /\ task.status = Str(FAIL)

\* C5 (as claimed by the README): isSuccess() is true only when the censored
\* field is false; a task whose censored field was not supplied is not a
\* success.
C5_SuccessOnlyIfCensoredFalse ==
    retSuccess = <<TRUE>> => task.censored = Bool(FALSE)

\* C6: Task.create succeeds if and only if the input has a string uuid and a
\* string status; otherwise it throws and the message marks exactly the
\* failing fields "missing" and the other "found".
C6_CreateSucceedsIffRequiredStrings ==
    outcome # "none" =>
        LET uuidIsString == jsonObject.uuid.type = "string"
            statusIsString == jsonObject.status.type = "string"
        IN  /\ (outcome = "Task") <=> (uuidIsString /\ statusIsString)
            /\ (outcome = "TypeError") <=> ~(uuidIsString /\ statusIsString)
            /\ outcome = "TypeError" =>
                   /\ (error.uuid = "missing") <=> ~uuidIsString
                   /\ (error.uuid = "found") <=> uuidIsString
                   /\ (error.status = "missing") <=> ~statusIsString
                   /\ (error.status = "found") <=> statusIsString

\* C6 witness: create threw for an input with a string uuid and a status of
\* the wrong type.
C6_Witness ==
    /\ outcome = "TypeError"
    /\ jsonObject.status = Num(0)
    /\ error.uuid = "found"
    /\ error.status = "missing"

\* an images value of the declared type string[] with at least one element
ImagesCorrectlyTyped(v) ==
    /\ v.type = "array"
    /\ Len(v.val) > 0
    /\ \A i \in 1..Len(v.val) : v.val[i].type = "string"

\* C7 (as claimed): when Task.create succeeds, each optional field of the
\* Task equals the input's field if it is present and correctly typed and is
\* absent otherwise.
C7_OptionalFieldsCopiedOrDropped ==
    outcome = "Task" =>
        /\ task.images = IF ImagesCorrectlyTyped(jsonObject.images)
                         THEN jsonObject.images ELSE Undefined
        /\ task.errorDescription = IF jsonObject.errorDescription.type = "string"
                                   THEN jsonObject.errorDescription ELSE Undefined
        /\ task.censored = IF jsonObject.censored.type = "boolean"
                           THEN jsonObject.censored ELSE Undefined
        /\ task.generationTime = IF jsonObject.generationTime.type = "number"
                                 THEN jsonObject.generationTime ELSE Undefined

\* C8 (as claimed): every Task produced by Task.create has a uuid and a
\* status that are present and non-empty strings.
C8_UuidStatusNonEmpty ==
    outcome = "Task" =>
        /\ task.uuid.type = "string" /\ task.uuid.val # ""
        /\ task.status.type = "string" /\ task.status.val # ""

\* C8 (amended): every Task produced by Task.create has a uuid and a status
\* that are present and strings; either may be the empty string.
C8_UuidStatusStrings ==
    outcome = "Task" =>
        /\ task.uuid.type = "string"
        /\ task.status.type = "string"

\* C8 witness: create returned a Task whose uuid is the empty string.
C8_Witness ==
    /\ outcome = "Task"
    /\ task.uuid = Str("")

\* C9 (as claimed): in every Task produced by Task.create, images, when
\* present, is a non-empty sequence whose elements are all strings.
C9_ImagesAllStrings ==
    (outcome = "Task" /\ task.images # Undefined) => ImagesCorrectlyTyped(task.images)

\* C10 (as claimed): the status of every Task produced is one of INITIAL,
\* PROCESSING, DONE, FAIL.
C10_StatusInEnumeration ==
    outcome = "Task" => task.status \in {Str(INITIAL), Str(PROCESSING), Str(DONE), Str(FAIL)}

\* C10 (amended): the status of every Task produced is a string, the one the
\* response carried, unchanged; it need not be one of the four enumerated.
C10_StatusIsResponseString ==
    outcome = "Task" =>
        /\ task.status.type = "string"
        /\ task.status = jsonObject.status

\* C10 witness: create returned a Task whose status is outside the enumeration.
C10_Witness ==
    /\ outcome = "Task"
    /\ task.status = Str("CANCELLED")

\* a readiness body that reports ACTIVE in its status or its model_status
ReportsActive(data) ==
    /\ data.type = "object"
    /\ (data.val.status = Str("ACTIVE") \/ data.val.model_status = Str("ACTIVE"))

\* C11 (as claimed): with strict mode off, for every 2xx readiness response
\* isReady returns true if and only if the body has status "ACTIVE" or
\* model_status "ACTIVE", and returns false without throwing for every other
\* payload.
C11_ReadyIffActive ==
    (pc = "done" /\ call.op = "isReady" /\ ~call.verbose_false /\ exchange.kind = "response")
        => (result.kind = "return" /\ result.value = Bool(ReportsActive(exchange.data)))

\* C12 (as claimed): with strict mode on, a 2xx readiness response whose
\* payload is not ACTIVE makes isReady throw a FusionBrainError of kind
\* MODEL_NOT_READY whose body is the serialized payload.
C12_StrictNotReady ==
    (/\ pc = "done" /\ call.op = "isReady" /\ call.verbose_false
     /\ exchange.kind = "response" /\ ~ReportsActive(exchange.data))
        => (/\ result.kind = "throw"
            /\ result.error.class = "FusionBrainError"
            /\ result.error.code = "MODEL_NOT_READY"
            /\ result.error.body = Str(stringifyText(exchange.data)))

\* the call threw a FusionBrainError of the given kind
ThrewCode(code) ==
    /\ result.kind = "throw"
    /\ result.error.class = "FusionBrainError"
    /\ result.error.code = code

\* the call has settled after a 2xx response
SettledOn2xx(op) == pc = "done" /\ call.op = op /\ exchange.kind = "response"

\* the call has settled after an HTTP failure response with the given status
SettledOnStatus(op, status) ==
    /\ pc = "done"
    /\ call.op = op
    /\ exchange.kind = "AxiosError"
    /\ exchange.response # Undefined
    /\ exchange.response.status = status

\* a response body with a string uuid and a string status
ValidatesAsTask(data) ==
    /\ data.type = "object"
    /\ "uuid" \in DOMAIN data.val /\ data.val.uuid.type = "string"
    /\ "status" \in DOMAIN data.val /\ data.val.status.type = "string"

\* C13: for every 2xx submission response generate returns, never throws:
\* {accepted: true, task} with task.uuid the payload's uuid if and only if the
\* payload has a string uuid and a string status, and otherwise
\* {accepted: false, reason} with reason the serialized payload.
C13_GenerateOutcome ==
    SettledOn2xx("generate") =>
        /\ result.kind = "return"
        /\ result.value.accepted = ValidatesAsTask(exchange.data)
        /\ result.value.accepted =>
               /\ result.value.task.uuid = exchange.data.val.uuid
               /\ result.value.reason = Undefined
        /\ ~result.value.accepted =>
               /\ result.value.reason = Str(stringifyText(exchange.data))
               /\ result.value.task = NoTask

\* C13 witness: a queue-rejection body came back as {accepted: false} with the
\* serialized body as reason.
C13_Witness ==
    /\ SettledOn2xx("generate")
    /\ exchange.data = Obj([model_status |-> Str("DISABLED_BY_QUEUE")])
    /\ result.value.accepted = FALSE
    /\ result.value.reason = Str("{\"model_status\":\"DISABLED_BY_QUEUE\"}")

MappedStatuses(op) ==
    CASE op = "isReady" -> {401}
      [] op = "generate" -> {400, 401, 415}
      [] op = "checkTask" -> {401, 404}
      [] op = "getModels" -> {401}
      [] OTHER -> {}

\* C15: every HTTP failure status that the table does not map for the
\* operation, and a transport failure without a response, throws UNEXPECTED.
C15_UnmappedIsUnexpected ==
    (/\ pc = "done"
     /\ exchange.kind = "AxiosError"
     /\ (exchange.response = Undefined
         \/ exchange.response.status \notin MappedStatuses(call.op)))
        => ThrewCode("UNEXPECTED")

\* C15 witness: getStyles threw UNEXPECTED after a 401.
C15_Witness ==
    /\ SettledOnStatus("getStyles", 401)
    /\ ThrewCode("UNEXPECTED")

\* C16 (as claimed by the README): for an HTTP status 415 the code of the
\* thrown FusionBrainError is UNEXPECTED.
C16_UnsupportedMediaIsUnexpected ==
    \A op \in {"isReady", "generate", "checkTask", "getModels", "getStyles"} :
        SettledOnStatus(op, 415) => ThrewCode("UNEXPECTED")

\* the TypeError that a listing call throws for a body that is not an array
TopLevelTypeErrors == {"FusionBrain.getStyles", "FusinBrain.getModels"}

\* C18: getModels and getStyles, given a 2xx response whose body is not an
\* array, throw the top-level TypeError before any element is validated.
C18_NonArrayListingFails ==
    \A op \in {"getModels", "getStyles"} :
        (SettledOn2xx(op) /\ exchange.data.type # "array") =>
            /\ result.kind = "throw"
            /\ result.error.class = "TypeError"
            /\ result.error.methodName \in TopLevelTypeErrors
            /\ result.validated = 0

\* C18 witness: getModels threw the top-level TypeError for a body that is a
\* single model object.
C18_Witness ==
    /\ SettledOn2xx("getModels")
    /\ exchange.data.type = "object"
    /\ "id" \in DOMAIN exchange.data.val
    /\ result.kind = "throw"
    /\ result.error.methodName = "FusinBrain.getModels"

\* an element with every required field of the listing's entity
ValidElement(op, e) ==
    /\ e.type = "object"
    /\ IF op = "getModels"
       THEN /\ e.val.id.type = "number" /\ e.val.name.type = "string"
            /\ e.val.version.type = "number" /\ e.val.type.type = "string"
       ELSE /\ e.val.name.type = "string" /\ e.val.title.type = "string"
            /\ e.val.titleEn.type = "string" /\ e.val.image.type = "string"

\* the entry was made from the element (the version of a model aside)
EntryOf(op, entry, e) ==
    IF op = "getModels"
    THEN entry.id = e.val.id /\ entry.name = e.val.name /\ entry.type = e.val.type
    ELSE /\ entry.name = e.val.name /\ entry.title = e.val.title
         /\ entry.titleEn = e.val.titleEn /\ entry.image = e.val.image

\* C19: getModels and getStyles never return a partial listing: if any
\* element of the response array fails validation the call throws, and
\* otherwise the result has one entry per element, in the same order.
C19_NoPartialListing ==
    \A op \in {"getModels", "getStyles"} :
        (SettledOn2xx(op) /\ exchange.data.type = "array") =>
            LET elems == exchange.data.val
            IN  IF \E i \in 1..Len(elems) : ~ValidElement(op, elems[i])
                THEN result.kind = "throw"
                ELSE /\ result.kind = "return"
                     /\ Len(result.value) = Len(elems)
                     /\ \A i \in 1..Len(elems) : EntryOf(op, result.value[i], elems[i])

\* C19 witness: getModels threw although the first element of the listing
\* was valid.
C19_Witness ==
    /\ SettledOn2xx("getModels")
    /\ exchange.data.type = "array"
    /\ Len(exchange.data.val) = 2
    /\ ValidElement("getModels", exchange.data.val[1])
    /\ result.kind = "throw"
    /\ result.validated = 2

\* C20 (as claimed): every ModelInfo made from an element with numeric id,
\* string name, numeric version and string type carries that id, name,
\* version and type.
C20_ModelInfoCarriesFields ==
    (SettledOn2xx("getModels") /\ result.kind = "return") =>
        \A i \in 1..Len(result.value) :
            LET e == exchange.data.val[i].val
            IN  /\ result.value[i].id = e.id
                /\ result.value[i].name = e.name
                /\ result.value[i].version = e.version
                /\ result.value[i].type = e.type

\* the settled call is a checkTask for a uuid whose finished Task an earlier
\* checkTask has already returned
LaterPoll ==
    /\ pc = "done"
    /\ call.op = "checkTask"
    /\ observed[call.uuid] >= 1

\* the service answered the request with its 404
Answered404 ==
    /\ exchange.kind = "AxiosError"
    /\ exchange.response # Undefined
    /\ exchange.response.status = 404

ThrewFusionBrainError == result.kind = "throw" /\ result.error.class = "FusionBrainError"

\* C21 (as claimed): a thrown FusionBrainError of kind UNEXPECTED or
\* MODEL_NOT_READY has a body, the serialized response body where there is a
\* response, also when UNEXPECTED is raised for a transport failure without an
\* HTTP response; an error of any other kind has no body.
C21_BodyByKind ==
    (pc = "done" /\ ThrewFusionBrainError) =>
        IF result.error.code \in {UNEXPECTED, MODEL_NOT_READY}
        THEN /\ result.error.body.type = "string"
             /\ exchange.kind = "response" =>
                    result.error.body = Str(stringifyText(exchange.data))
             /\ (exchange.kind = "AxiosError" /\ exchange.response # Undefined) =>
                    result.error.body = Str(stringifyText(exchange.response.data))
        ELSE result.error.body = Undefined

\* the options object of the settled or pending generate call has the key
Supplied(key) == call.options # Undefined /\ call.options.val[key] # Undefined

\* a generate call has sent its request
GenerateSent == pc \in {"awaiting", "done"} /\ call.op = "generate"

\* C22 (as claimed): the numImages sent by generate is 1 whatever amount the
\* options supply.
C22_NumImagesAlwaysOne ==
    GenerateSent => request.data.params.numImages = Num(1)

\* C22 (amended): the numImages sent by generate is the amount the options
\* supply, and 1 when no amount is supplied.
C22_NumImagesIsAmountOrOne ==
    GenerateSent =>
        request.data.params.numImages = IF Supplied("amount") THEN call.options.val.amount ELSE Num(1)

\* C22 witness: generate was called with amount 2 and sent numImages 2.
C22_Witness ==
    /\ GenerateSent
    /\ Supplied("amount")
    /\ call.options.val.amount = Num(2)
    /\ request.data.params.numImages = Num(2)

\* C23: each of style, negative, width and height is defaulted on its own
\* ("DEFAULT", "", 768, 768) when omitted, whatever the other options are, and
\* is sent unchanged when supplied.
C23_IndependentDefaults ==
    GenerateSent =>
        /\ request.data.params.style =
               IF Supplied("style") THEN call.options.val.style ELSE Str("DEFAULT")
        /\ request.data.params.negativePromptUnclip =
               IF Supplied("negative") THEN call.options.val.negative ELSE Str("")
        /\ request.data.params.width =
               IF Supplied("width") THEN call.options.val.width ELSE Num(768)
        /\ request.data.params.height =
               IF Supplied("height") THEN call.options.val.height ELSE Num(768)

\* C23 witness: only a style was supplied; it was sent as given and the size
\* and negative prompt were sent as their defaults.
C23_Witness ==
    /\ GenerateSent
    /\ Supplied("style") /\ ~Supplied("width") /\ ~Supplied("height") /\ ~Supplied("negative")
    /\ request.data.params.style = Str("UHD")
    /\ request.data.params.width = Num(768)
    /\ request.data.params.height = Num(768)
    /\ request.data.params.negativePromptUnclip = Str("")

\* the kinds of FusionBrainErrorCode
FusionBrainErrorCode ==
    {EXPIRED, UNAUTHORIZED, LONG_PROMPT_OR_BAD_REQUEST, MODEL_NOT_READY,
     UNSUPPORTED_MEDIA, UNEXPECTED}

\* C25 (as claimed): whatever a public operation throws is a FusionBrainError
\* of one of the six kinds, or, outside generate, the failure of the
\* validation of the response body (the TypeError thrown in checkTask,
\* getModels or getStyles, the operations with a validator); nothing else
\* reaches the caller.
C25_EveryFailureClassified ==
    (pc = "done" /\ result.kind = "throw") =>
        \/ ThrewFusionBrainError /\ result.error.code \in FusionBrainErrorCode
        \/ /\ result.error.class = "TypeError"
           /\ call.op \in {"checkTask", "getModels", "getStyles"}

\* C26 (as claimed): the operation name carried by a FusionBrainError is the
\* name of the operation that threw it.
C26_ErrorNamesItsOperation ==
    (pc = "done" /\ ThrewFusionBrainError) =>
        result.error.methodName = "FusionBrain." \o call.op

\* C27: checkTask, given a 2xx response whose body does not validate as a
\* Task, throws the TypeError of that validation: it does not return, and it
\* throws no FusionBrainError of any kind.
C27_CheckTaskValidationFailure ==
    (SettledOn2xx("checkTask") /\ ~ValidatesAsTask(exchange.data)) =>
        /\ result.kind = "throw"
        /\ result.error.class = "TypeError"
        /\ result.error.methodName \in {"Task.create", "in"}

\* C27 witness: the status endpoint answered 2xx with a body without uuid and
\* status, and checkTask threw the TypeError of Task.create.
C27_Witness ==
    /\ SettledOn2xx("checkTask")
    /\ exchange.data = Obj([model_status |-> Str("DISABLED_BY_QUEUE")])
    /\ result.kind = "throw"
    /\ result.error.class = "TypeError"
    /\ result.error.methodName = "Task.create"

\* C24: a call of isReady, generate, checkTask, getModels or getStyles has sent
\* exactly one HTTP request from the moment it is made, while it waits and
\* after it has returned or thrown, whatever the exchange brought; no request
\* is sent outside a call.
C24_OneExchangePerCall ==
    sent = IF pc = "idle" THEN 0 ELSE 1

\* C24 witness: a call has thrown after a failed exchange, having sent one
\* request.
C24_Witness ==
    /\ pc = "done"
    /\ exchange.kind = "AxiosError"
    /\ result.kind = "throw"
    /\ sent = 1

\* C29: no step changes the client's configuration, and the Task the caller
\* holds changes only when the caller itself assigns the outcome of a settled
\* call; checkTask returns its Task as a new value.
C29_ConfigAndTasksKept ==
    [][/\ config' = config
       /\ kept' # kept => (pc = "done" /\ pc' = "idle")]_vars

\* C29 witness: the caller holds a Task and a later checkTask for the same
\* uuid has returned a Task with another status; the configuration is the one
\* of the constructor.
C29_Witness ==
    /\ pc = "done"
    /\ call.op = "checkTask"
    /\ result.kind = "return"
    /\ kept # NoTask
    /\ kept.uuid = result.value.uuid
    /\ kept.status # result.value.status
    /\ config = FusionBrain("key", "secret", DefaultEndpoint)

\* C28: whatever other calls are in flight on the same client and however
\* their steps interleave, a settled call has returned or thrown what its
\* method yields for its own arguments and its own exchange, and the request
\* it sent is the one built from its own arguments and the configuration.
C28_OutcomeAsIfAlone ==
    \A s \in Slots :
        flight[s].pc = "done" =>
            /\ flight[s].result = settle(flight[s].call, flight[s].exchange)
            /\ flight[s].request = requestFor(config, flight[s].call)

\* C28 witness: checkTask settled with EXPIRED on its own 404 while a generate
\* call was in flight whose response had already arrived, and that generate
\* call then returned its accepted Task.
C28_Witness ==
    \E s, t \in Slots :
        /\ flight[s].pc = "done"
        /\ flight[s].call.op = "checkTask"
        /\ t # s
        /\ flight[s].overlapped
        /\ flight[s].result.kind = "throw"
        /\ flight[s].result.error.code = EXPIRED
        /\ flight[t].pc = "done"
        /\ flight[t].call.op = "generate"
        /\ flight[t].result.kind = "return"
        /\ flight[t].result.value.accepted

====
